---- MODULE Spec2Model ----
(***************************************************************************)
(* Model of the online room protocol of hit-and-brow                       *)
(* (src/src/utils/roomService.ts, src/src/utils/roomTypes.ts).             *)
(*                                                                         *)
(* One room document of the 'rooms' collection is modelled.  Every         *)
(* exported function of roomService.ts that first awaits getDoc and then   *)
(* awaits updateDoc is split at that suspension point: the "call" action   *)
(* is the read together with the synchronous checks that follow it, and    *)
(* it leaves the field-path write it issued in `pending`; CommitWrite is   *)
(* the store applying one issued write.  Any other action may run between  *)
(* the two.  Functions with a single store call are one action.            *)
(*                                                                         *)
(* JavaScript objects are records whose DOMAIN is the set of fields that   *)
(* are present: an optional field that was never written (Player.secret)   *)
(* is absent from the DOMAIN.  Digit strings are sequences of digits, so   *)
(* the empty string is << >>.                                              *)
(*                                                                         *)
(* No function of roomService.ts reads a timestamp: Date.now() is only     *)
(* written.  Spec and SpecOpen leave the clock `now` at 0.                 *)
(***************************************************************************)
EXTENDS Integers, Sequences, FiniteSets, Bags, TLC

VARIABLES
    doc,          \* the room document in the store, or NoDoc
    allocated,    \* createRoom has allocated the room id
    pending,      \* bag of updateDoc writes issued and not yet committed
    now,          \* Date.now()
    joinOk,       \* history: uids whose joinRoom call returned true
    lastGuesser,  \* history: role of the latest committed guess, or "none"
    ret,          \* history: what the call made in the latest step returned
    screen,       \* per user: the screen App shows ("list", "joining", "game")
    view,         \* per user: the room state of OnlineGamePage, or NoView
    mySecret,     \* per user: the mySecret state of OnlineGamePage
    timer,        \* per user: << >>, or <<the time the heartbeat fires next>>
    gone          \* history: users whose listener was given an absent snapshot

\* the state of the components of each user's client
cvars == <<screen, view, mySecret, timer, gone>>

vars == <<doc, allocated, pending, now, joinOk, lastGuesser, ret, cvars>>

\* the variables no function of roomService.ts reads or writes
obs == <<ret, cvars>>

-----------------------------------------------------------------------------
(* Bounds of the model *)

MaxInFlight == 2     \* writes issued and not yet committed
MaxGuesses  == 2     \* a call appends a guess only to a shorter history
TurnLimit   == 1     \* config.maxTurns of the rooms created with a limit
RetInFlight == 1     \* writes in flight when the outcome of calls is recorded
MaxTime     == 2     \* the clock stops here
MaxAge      == 31    \* seconds since lastActiveAt of the presence checks
MaxRooms    == 22    \* rooms the collection has had when it is queried
MaxDigit    == 4     \* the digits of the strings evaluated are 1..MaxDigit
MaxSecretLen == 3    \* digits up to which every random outcome is taken
MaxBeats    == 4     \* heartbeat periods the clock of the heartbeats runs for

\* the users: Hosts create the room, Joiners (OpenJoiners under SpecOpen)
\* call joinRoom, and every user may call every other function (under Spec
\* "u3" is an outsider to the room)
Uids == {"u1", "u2", "u3"}
Hosts == {"u1"}
Joiners == {"u2"}
OpenJoiners == Uids \ Hosts
Clients == Hosts \cup Joiners      \* the two players of a room
NoUid == "undefined"

\* the digit strings used as secrets, and those used as guesses
Strings == {<<1, 2>>, <<2, 1>>}
GuessStrings == {<<1, 2>>}

\* GameConfig of the rooms created
Configs == { [digits |-> 2, allowDuplicate |-> FALSE, maxTurns |-> TurnLimit] }

\* GameConfig of the rooms created when the outcome of calls is recorded
RetConfigs ==
    Configs \cup { [digits |-> 2, allowDuplicate |-> TRUE, maxTurns |-> TurnLimit] }

\* the game RoomListPage offers by default, and two of its digit strings
Digits == 4
DefaultMaxTurns == 15
GameConfigs ==
    { [digits |-> Digits, allowDuplicate |-> FALSE, maxTurns |-> DefaultMaxTurns] }
GameStrings == {<<1, 2, 3, 4>>, <<4, 3, 2, 1>>}

-----------------------------------------------------------------------------
(* Data: roomTypes.ts *)

RoomStatus == {"waiting", "playing", "finished"}
PlayerRole == {"host", "guest"}

NoDoc == [absent |-> TRUE]      \* snapshot.exists() is false
Null  == [isNull |-> TRUE]      \* Room.guest === null
NoRet == [op |-> "none"]        \* no call recorded
NoView == [loading |-> TRUE]    \* OnlineGamePage room === null, or not mounted

\* o?.f, with d standing for undefined
Get(o, f, d) == IF f \in DOMAIN o THEN o[f] ELSE d

\* the object o with field f set to v (f is created when absent)
SetField(o, f, v) == [g \in (DOMAIN o) \cup {f} |-> IF g = f THEN v ELSE o[g]]

\* a Player as createRoom and joinRoom build it: no secret field
Player(uid, role, t) ==
    [uid |-> uid, role |-> role, isReady |-> FALSE, guesses |-> << >>,
     lastActiveAt |-> t]

\* NewRoom as it would be if the room were always given the default config
NewRoomDefaultConfig(config, hostUid, t) ==
    [id |-> "room", status |-> "waiting",
     config |-> [digits |-> 2, allowDuplicate |-> FALSE, maxTurns |-> TurnLimit],
     host |-> Player(hostUid, "host", t), guest |-> Null,
     currentTurn |-> "host", createdAt |-> t, updatedAt |-> t]

\* the Room createRoom writes
NewRoom(config, hostUid, t) ==
    [id |-> "room", status |-> "waiting", config |-> config,
     host |-> Player(hostUid, "host", t), guest |-> Null,
     currentTurn |-> "host", createdAt |-> t, updatedAt |-> t]

Other(role) == IF role = "host" THEN "guest" ELSE "host"

\* !p.secret is false: the field is present and not the empty string
HasSecret(p) == Get(p, "secret", << >>) # << >>

\* p?.isReady is truthy
IsReady(p) == Get(p, "isReady", FALSE)

\* p?.guesses || []
GuessesOf(p) == Get(p, "guesses", << >>)

-----------------------------------------------------------------------------
(* The synchronous part of each call: what it decides from its snapshot *)

\* JoinCheck as it would be with the status tested before the guest slot
JoinCheckStatusFirst(d) ==
    IF d = NoDoc THEN "NotFound"
    ELSE IF d.status # "waiting" THEN "NotJoinable"
    ELSE IF d.guest # Null THEN "AlreadyFull"
    ELSE "ok"

\* joinRoom, lines 66-78: the first failing check decides the error
JoinCheck(d) ==
    IF d = NoDoc THEN "NotFound"
    ELSE IF d.guest # Null THEN "AlreadyFull"
    ELSE IF d.status # "waiting" THEN "NotJoinable"
    ELSE "ok"

\* RoleOf as it would be with a plain else for the guest
RoleOfElseGuest(d, uid) ==
    IF d.host.uid = uid THEN "host" ELSE "guest"

\* the if / else-if on room.host.uid and room.guest?.uid
\* (updatePlayerReady, setPlayerSecret, updatePlayerActive)
RoleOf(d, uid) ==
    IF d.host.uid = uid THEN "host"
    ELSE IF Get(d.guest, "uid", NoUid) = uid THEN "guest"
    ELSE "none"

\* StartCheck as it would be if only the host's readiness were tested
StartCheckHostOnly(d) ==
    IF d = NoDoc THEN "NotFound"
    ELSE IF ~d.host.isReady THEN "NotReady"
    ELSE IF ~HasSecret(d.host) \/ ~HasSecret(d.guest) THEN "SecretsMissing"
    ELSE "ok"

\* startGame, lines 172-186
StartCheck(d) ==
    IF d = NoDoc THEN "NotFound"
    ELSE IF ~d.host.isReady \/ ~IsReady(d.guest) THEN "NotReady"
    ELSE IF ~HasSecret(d.host) \/ ~HasSecret(d.guest) THEN "SecretsMissing"
    ELSE "ok"

\* SubmitCheck as it would be with the turn enforced in the store call
SubmitCheckTurn(d, uid) ==
    IF d = NoDoc THEN "NotFound"
    ELSE IF RoleOf(d, uid) = "none" THEN "PlayerNotFound"
    ELSE IF d.currentTurn # RoleOf(d, uid) THEN "NotYourTurn"
    ELSE "ok"

\* SubmitCheck as it would be if every uid but the host's were taken for the
\* guest's
SubmitCheckAnyGuest(d, uid) ==
    IF d = NoDoc THEN "NotFound" ELSE "ok"

\* submitGuess, lines 263-275: the error thrown, or "ok"
SubmitCheck(d, uid) ==
    IF d = NoDoc THEN "NotFound"
    ELSE IF d.host.uid = uid THEN "ok"
    ELSE IF Get(d.guest, "uid", NoUid) # uid THEN "PlayerNotFound"
    ELSE "ok"

\* submitGuess, lines 270-272: isHost
IsHost(d, uid) == d.host.uid = uid

\* NewGuesses as it would be if the guesses read were dropped
NewGuessesOnlyLatest(d, isHost, guess) == <<guess>>

\* submitGuess, line 278: the history the call writes back
NewGuesses(d, isHost, guess) ==
    IF isHost THEN Append(d.host.guesses, guess)
    ELSE Append(GuessesOf(d.guest), guess)

\* NextTurn as it would be if it flipped the currentTurn that was read
NextTurnToggle(d, isHost) == Other(d.currentTurn)

\* NextTurn as it would be with the two branches exchanged
NextTurnSame(d, isHost) == IF isHost THEN "host" ELSE "guest"

\* submitGuess, line 281: nextTurn
NextTurn(d, isHost) == IF isHost THEN "guest" ELSE "host"

-----------------------------------------------------------------------------
(* The evaluator and what each client derives from a snapshot *)

\* Hit as it would be if the loop stopped one position early
HitStopsEarly(secret, guess) ==
    Cardinality({ i \in 1..(Len(secret) - 1) :
                    i <= Len(guess) /\ secret[i] = guess[i] })

\* checkGuess: hit counts the positions of secret that hold the same digit
\* in guess
Hit(secret, guess) ==
    Cardinality({ i \in 1..Len(secret) :
                    i <= Len(guess) /\ secret[i] = guess[i] })

\* checkGuess: blow counts the other positions of secret whose digit in guess
\* occurs somewhere in secret
Blow(secret, guess) ==
    Cardinality({ i \in 1..Len(secret) :
                    /\ i <= Len(guess)
                    /\ secret[i] # guess[i]
                    /\ \E j \in 1..Len(secret) : secret[j] = guess[i] })

CheckGuess(secret, guess) ==
    [hit |-> Hit(secret, guess), blow |-> Blow(secret, guess)]

\* IsGameClear as it would be if a cleared game also had to have no blow
IsGameClearStrict(result, config) ==
    result.hit = config.digits /\ result.blow = 0

\* isGameClear (gameLogic, lines 110-112)
IsGameClear(result, config) == result.hit = config.digits

\* validateGuess: TRUE when it returns null (the strings of the model hold
\* digits only)
ValidGuess(guess, config) ==
    /\ Len(guess) = config.digits
    /\ config.allowDuplicate
          \/ Cardinality({ guess[i] : i \in 1..Len(guess) }) = config.digits

\* isTurnLimitReached
IsTurnLimitReached(count, config) ==
    "maxTurns" \in DOMAIN config /\ count >= config.maxTurns

\* OnlineGamePage, lines 33-38, for the user u looking at the room r
MyPlayer(r, u) == IF r.host.uid = u THEN r.host ELSE r.guest
OpponentPlayer(r, u) == IF r.host.uid = u THEN r.guest ELSE r.host
IsMyTurn(r, u) ==
    r.currentTurn = (IF r.host.uid = u THEN "host" ELSE "guest")

\* some entry of guesses clears the game against secret
SomeClear(guesses, secret, config) ==
    \E i \in 1..Len(guesses) :
        IsGameClear(CheckGuess(secret, guesses[i]), config)

\* line 344: iWon, from the opponent's secret in the snapshot
IWon(r, u) ==
    SomeClear(GuessesOf(MyPlayer(r, u)),
              Get(OpponentPlayer(r, u), "secret", << >>), r.config)

\* line 345: opponentWon, from the mySecret state of the component
OpponentWon(r, u, secret) ==
    SomeClear(GuessesOf(OpponentPlayer(r, u)), secret, r.config)

\* lines 371-386: the result banner
Banner(r, u, secret) ==
    IF ~(IWon(r, u) \/ OpponentWon(r, u, secret)) THEN "none"
    ELSE IF IWon(r, u) THEN "win" ELSE "loss"

-----------------------------------------------------------------------------
(* Issued writes and their effect on the document *)

\* an updateDoc call in flight: the field paths it carries are fixed by op
\* and role, the values by the remaining fields
Write(op, uid, role, flag, str, guesses, turn, t) ==
    [op |-> op, uid |-> uid, role |-> role, flag |-> flag, str |-> str,
     guesses |-> guesses, turn |-> turn, now |-> t]

\* SetPlayerField as it would be if every path named the host
SetPlayerFieldHostOnly(d, role, f, v) ==
    [d EXCEPT !.host = SetField(d.host, f, v)]

\* updateDoc with the path '<role>.<f>': a parent that is not a map is
\* replaced by a map holding only f
SetPlayerField(d, role, f, v) ==
    LET p == d[role]
        q == IF p = Null THEN [g \in {f} |-> v] ELSE SetField(p, f, v)
    IN  [d EXCEPT ![role] = q]

\* GuestLeft as it would be if the status were left as it is
GuestLeftKeepsStatus(d) == [d EXCEPT !.guest = Null]

\* the fields leaveRoomAsGuest writes: the guest slot is cleared and the room
\* is open again
GuestLeft(d) == [d EXCEPT !.guest = Null, !.status = "waiting"]

\* Stamp as it would be if the update carried no updatedAt
StampNever(d, t) == d

\* Stamp as it would be if the update carried createdAt as well
StampBoth(d, t) == [d EXCEPT !.createdAt = t, !.updatedAt = t]

\* updatedAt: Date.now(), in the fields of every updateDoc
Stamp(d, t) == [d EXCEPT !.updatedAt = t]

\* GuessWritten as it would be if a guess that is the other player's secret
\* also ended the game in the record
GuessWrittenStoresWin(d, w) ==
    LET e == [SetPlayerField(d, w.role, "guesses", w.guesses)
                 EXCEPT !.currentTurn = w.turn]
    IN  IF w.str = Get(d[Other(w.role)], "secret", << >>)
        THEN [e EXCEPT !.status = "finished"]
        ELSE e

\* the fields submitGuess writes (lines 283-295): the guesses of the player
\* and currentTurn
GuessWritten(d, w) ==
    [SetPlayerField(d, w.role, "guesses", w.guesses)
        EXCEPT !.currentTurn = w.turn]

\* the document after updateDoc(roomRef, fields of w)
ApplyWrite(d, w) ==
    LET u == Stamp(d, w.now) IN
    CASE w.op = "joinRoom" ->
            [u EXCEPT !.guest = Player(w.uid, "guest", w.now)]
      [] w.op = "updatePlayerReady" ->
            SetPlayerField(u, w.role, "isReady", w.flag)
      [] w.op = "setPlayerSecret" ->
            SetPlayerField(u, w.role, "secret", w.str)
      [] w.op = "startGame" ->
            [u EXCEPT !.status = "playing"]
      [] w.op = "submitGuess" ->
            GuessWritten(u, w)
      [] w.op = "finishGame" ->
            [u EXCEPT !.status = "finished"]
      [] w.op = "updatePlayerActive" ->
            SetPlayerField(u, w.role, "lastActiveAt", w.now)
      [] w.op = "leaveRoomAsGuest" ->
            GuestLeft(u)

-----------------------------------------------------------------------------
(* Calls in flight *)

CanIssue == allocated /\ BagCardinality(pending) < MaxInFlight

Issue(w) == pending' = pending (+) SetToBag({w})

-----------------------------------------------------------------------------
(* Actions *)

Init ==
    /\ doc = NoDoc
    /\ allocated = FALSE
    /\ pending = EmptyBag
    /\ now = 0
    /\ joinOk = {}
    /\ lastGuesser = "none"
    /\ ret = NoRet
    /\ screen = [u \in Uids |-> "list"]
    /\ view = [u \in Uids |-> NoView]
    /\ mySecret = [u \in Uids |-> << >>]
    /\ timer = [u \in Uids |-> << >>]
    /\ gone = {}

\* createRoom: a fresh id, one setDoc
CreateRoom(config, hostUid) ==
    /\ ~allocated
    /\ allocated' = TRUE
    /\ doc' = NewRoom(config, hostUid, now)
    /\ UNCHANGED <<pending, now, joinOk, lastGuesser>>

\* joinRoom up to its updateDoc call
JoinRoom(guestUid) ==
    /\ CanIssue
    /\ LET r == JoinCheck(doc) IN
        IF r = "ok"
        THEN /\ Issue(Write("joinRoom", guestUid, "guest", FALSE, << >>,
                            << >>, "none", now))
        ELSE /\ pending' = pending
    /\ UNCHANGED <<doc, allocated, now, joinOk, lastGuesser>>

\* updatePlayerReady up to its updateDoc call
UpdatePlayerReady(playerUid, isReady) ==
    /\ CanIssue
    /\ IF doc = NoDoc
       THEN /\ pending' = pending
       ELSE LET role == RoleOf(doc, playerUid) IN
            IF role = "none"
            THEN /\ pending' = pending
            ELSE /\ Issue(Write("updatePlayerReady", playerUid, role,
                                isReady, << >>, << >>, "none", now))
    /\ UNCHANGED <<doc, allocated, now, joinOk, lastGuesser>>

\* setPlayerSecret up to its updateDoc call
SetPlayerSecret(playerUid, secret) ==
    /\ CanIssue
    /\ IF doc = NoDoc
       THEN /\ pending' = pending
       ELSE LET role == RoleOf(doc, playerUid) IN
            IF role = "none"
            THEN /\ pending' = pending
            ELSE /\ Issue(Write("setPlayerSecret", playerUid, role, FALSE,
                                secret, << >>, "none", now))
    /\ UNCHANGED <<doc, allocated, now, joinOk, lastGuesser>>

\* startGame up to its updateDoc call
StartGame ==
    /\ CanIssue
    /\ LET r == StartCheck(doc) IN
        IF r = "ok"
        THEN /\ Issue(Write("startGame", NoUid, "none", FALSE, << >>,
                            << >>, "none", now))
        ELSE /\ pending' = pending
    /\ UNCHANGED <<doc, allocated, now, joinOk, lastGuesser>>

\* submitGuess up to its updateDoc call
SubmitGuess(playerUid, guess) ==
    /\ CanIssue
    /\ LET r == SubmitCheck(doc, playerUid) IN
        IF r = "ok"
        THEN LET isHost == IsHost(doc, playerUid)
                 role   == IF isHost THEN "host" ELSE "guest"
                 old    == IF isHost THEN doc.host.guesses
                           ELSE GuessesOf(doc.guest)
             IN  /\ Len(old) < MaxGuesses
                 /\ Issue(Write("submitGuess", playerUid, role, FALSE,
                                guess, NewGuesses(doc, isHost, guess),
                                NextTurn(doc, isHost), now))
        ELSE /\ pending' = pending
    /\ UNCHANGED <<doc, allocated, now, joinOk, lastGuesser>>

\* updatePlayerActive up to its updateDoc call; a missing room is not an
\* error
UpdatePlayerActive(playerUid) ==
    /\ CanIssue
    /\ IF doc = NoDoc
       THEN /\ pending' = pending
       ELSE LET role == RoleOf(doc, playerUid) IN
            IF role = "none"
            THEN /\ pending' = pending
            ELSE /\ Issue(Write("updatePlayerActive", playerUid, role,
                                FALSE, << >>, << >>, "none", now))
    /\ UNCHANGED <<doc, allocated, now, joinOk, lastGuesser>>

\* CommitWrite as it would be if the write were setDoc with merge, which
\* creates the document from the fields written
CommitWriteMerges ==
    \E w \in BagToSet(pending) :
        /\ pending' = pending (-) SetToBag({w})
        /\ doc' = IF doc = NoDoc THEN [updatedAt |-> w.now]
                  ELSE ApplyWrite(doc, w)
        /\ UNCHANGED <<allocated, now, joinOk, lastGuesser>>

\* the store commits one issued write; updateDoc rejects when there is no
\* document, and the call then throws
CommitWrite ==
    \E w \in BagToSet(pending) :
        /\ pending' = pending (-) SetToBag({w})
        /\ IF doc = NoDoc
           THEN /\ doc' = doc
                /\ UNCHANGED <<joinOk, lastGuesser>>
           ELSE /\ doc' = ApplyWrite(doc, w)
                /\ joinOk' = IF w.op = "joinRoom" THEN joinOk \cup {w.uid}
                             ELSE joinOk
                /\ lastGuesser' = IF w.op = "submitGuess" THEN w.role
                                  ELSE lastGuesser
        /\ UNCHANGED <<allocated, now>>

\* finishGame: one updateDoc, no read
FinishGame ==
    /\ allocated
    /\ IF doc = NoDoc
       THEN /\ doc' = doc
       ELSE /\ doc' = ApplyWrite(doc, Write("finishGame", NoUid, "none",
                                            FALSE, << >>, << >>, "none", now))
    /\ UNCHANGED <<allocated, pending, now, joinOk, lastGuesser>>

\* deleteRoom: one deleteDoc, which succeeds whether or not the document
\* exists
DeleteRoom ==
    /\ allocated
    /\ doc' = NoDoc
    /\ UNCHANGED <<allocated, pending, now, joinOk, lastGuesser>>

\* leaveRoomAsGuest: one updateDoc, which rejects when there is no document
LeaveRoomAsGuest ==
    /\ allocated
    /\ IF doc = NoDoc
       THEN /\ doc' = doc
       ELSE /\ doc' = ApplyWrite(doc, Write("leaveRoomAsGuest", NoUid, "guest",
                                            FALSE, << >>, << >>, "none", now))
    /\ UNCHANGED <<allocated, pending, now, joinOk, lastGuesser>>

\* every function of roomService.ts that writes, called by the users of a
\* two-player room and by an outsider
Next ==
    \/ (\E c \in Configs, u \in Hosts : CreateRoom(c, u)) /\ UNCHANGED obs
    \/ (\E u \in Joiners : JoinRoom(u)) /\ UNCHANGED obs
    \/ (\E u \in Uids, b \in BOOLEAN : UpdatePlayerReady(u, b))
            /\ UNCHANGED obs
    \/ (\E u \in Uids, s \in Strings : SetPlayerSecret(u, s))
            /\ UNCHANGED obs
    \/ StartGame /\ UNCHANGED obs
    \/ (\E u \in Uids, g \in GuessStrings : SubmitGuess(u, g))
            /\ UNCHANGED obs
    \/ (\E u \in Uids : UpdatePlayerActive(u)) /\ UNCHANGED obs
    \/ CommitWrite /\ UNCHANGED obs
    \/ FinishGame /\ UNCHANGED obs
    \/ DeleteRoom /\ UNCHANGED obs

Spec == Init /\ [][Next]_vars

\* the same functions when every user but the host may call joinRoom
NextOpen ==
    \/ (\E c \in Configs, u \in Hosts : CreateRoom(c, u)) /\ UNCHANGED obs
    \/ (\E u \in OpenJoiners : JoinRoom(u)) /\ UNCHANGED obs
    \/ (\E u \in Uids, b \in BOOLEAN : UpdatePlayerReady(u, b))
            /\ UNCHANGED obs
    \/ (\E u \in Uids, s \in Strings : SetPlayerSecret(u, s))
            /\ UNCHANGED obs
    \/ StartGame /\ UNCHANGED obs
    \/ (\E u \in Uids, g \in GuessStrings : SubmitGuess(u, g))
            /\ UNCHANGED obs
    \/ (\E u \in Uids : UpdatePlayerActive(u)) /\ UNCHANGED obs
    \/ CommitWrite /\ UNCHANGED obs
    \/ FinishGame /\ UNCHANGED obs
    \/ DeleteRoom /\ UNCHANGED obs

SpecOpen == Init /\ [][NextOpen]_vars

\* the same functions with the outcome of a call of createRoom, joinRoom,
\* startGame or submitGuess recorded in the step that makes it: the id
\* returned, the error thrown by the checks, or "ok" when the call went on to
\* its updateDoc.  Every other step clears the record.
Ret(op, uid, result) == [op |-> op, uid |-> uid, result |-> result]

\* the step records r, or clears the record; the clients are not modelled
Rec(r) == ret' = r /\ UNCHANGED cvars
NoRec == Rec(NoRet)

\* a client with a call in flight waits for it: under SpecRet at most
\* RetInFlight writes are issued and not yet committed
RetCanIssue == BagCardinality(pending) < RetInFlight

NextRet ==
    \/ \E c \in RetConfigs, u \in Hosts :
            CreateRoom(c, u) /\ Rec(Ret("createRoom", u, doc'.id))
    \/ \E u \in Joiners :
            /\ RetCanIssue
            /\ JoinRoom(u)
            /\ Rec(Ret("joinRoom", u, JoinCheck(doc)))
    \/ \E u \in Uids, b \in BOOLEAN :
            RetCanIssue /\ UpdatePlayerReady(u, b) /\ NoRec
    \/ \E u \in Uids, s \in Strings :
            RetCanIssue /\ SetPlayerSecret(u, s) /\ NoRec
    \/ /\ RetCanIssue
       /\ StartGame
       /\ Rec(Ret("startGame", NoUid, StartCheck(doc)))
    \/ \E u \in Uids, g \in GuessStrings :
            /\ RetCanIssue
            /\ SubmitGuess(u, g)
            /\ Rec(Ret("submitGuess", u, SubmitCheck(doc, u)))
    \/ \E u \in Uids :
            RetCanIssue /\ UpdatePlayerActive(u) /\ NoRec
    \/ CommitWrite /\ NoRec
    \/ FinishGame /\ NoRec
    \/ DeleteRoom /\ NoRec

SpecRet == Init /\ [][NextRet]_vars

\* the functions called by a host, by two users who join in turn and by a
\* guest who leaves; the step in which leaveRoomAsGuest is called is recorded
NextLeave ==
    \/ (\E c \in Configs, u \in Hosts : CreateRoom(c, u)) /\ NoRec
    \/ \E u \in OpenJoiners :
            RetCanIssue /\ JoinRoom(u) /\ NoRec
    \/ \E u \in Uids, b \in BOOLEAN :
            RetCanIssue /\ UpdatePlayerReady(u, b) /\ NoRec
    \/ \E u \in Uids, s \in Strings :
            RetCanIssue /\ SetPlayerSecret(u, s) /\ NoRec
    \/ RetCanIssue /\ StartGame /\ NoRec
    \/ \E u \in Uids, g \in GuessStrings :
            RetCanIssue /\ SubmitGuess(u, g) /\ NoRec
    \/ CommitWrite /\ NoRec
    \/ DeleteRoom /\ NoRec
    \/ /\ LeaveRoomAsGuest
       /\ Rec(Ret("leaveRoomAsGuest", NoUid,
                  IF doc = NoDoc THEN "NotFound" ELSE "ok"))

SpecLeave == Init /\ [][NextLeave]_vars

\* Date.now() advances
Tick ==
    /\ now < MaxTime
    /\ now' = now + 1
    /\ UNCHANGED <<doc, allocated, pending, joinOk, lastGuesser>>

\* every call is awaited before the next one is made
Awaited == pending = EmptyBag

\* the functions that write, called one after the other by the two players
\* while the clock runs
NextClock ==
    \/ (\E c \in Configs, u \in Hosts : CreateRoom(c, u)) /\ UNCHANGED obs
    \/ \E u \in Joiners : Awaited /\ JoinRoom(u) /\ UNCHANGED obs
    \/ \E u \in Clients, b \in BOOLEAN :
            Awaited /\ UpdatePlayerReady(u, b) /\ UNCHANGED obs
    \/ \E u \in Clients, s \in GuessStrings :
            Awaited /\ SetPlayerSecret(u, s) /\ UNCHANGED obs
    \/ Awaited /\ StartGame /\ UNCHANGED obs
    \/ \E u \in Clients, g \in GuessStrings :
            Awaited /\ SubmitGuess(u, g) /\ UNCHANGED obs
    \/ \E u \in Clients :
            Awaited /\ UpdatePlayerActive(u) /\ UNCHANGED obs
    \/ CommitWrite /\ UNCHANGED obs
    \/ FinishGame /\ UNCHANGED obs
    \/ Tick /\ UNCHANGED obs

SpecClock == Init /\ [][NextClock]_vars

\* the heartbeat of the two players while the room is set up and deleted,
\* with the outcome of each updatePlayerActive call recorded: "returned" when
\* it returns after its read, "awaiting" when it goes on to its updateDoc,
\* and, in the step that commits its write, "ok" or the "NotFound" with
\* which updateDoc rejects
NextBeat ==
    \/ (\E c \in Configs, u \in Hosts : CreateRoom(c, u)) /\ NoRec
    \/ \E u \in Joiners : JoinRoom(u) /\ NoRec
    \/ \E u \in Clients, b \in BOOLEAN : UpdatePlayerReady(u, b) /\ NoRec
    \/ \E u \in Uids :
            /\ UpdatePlayerActive(u)
            /\ Rec(Ret("updatePlayerActive", u,
                       IF pending' = pending THEN "returned" ELSE "awaiting"))
    \/ \E w \in BagToSet(pending) :
            /\ pending' = pending (-) SetToBag({w})
            /\ CommitWrite
            /\ Rec(Ret(w.op, w.uid, IF doc = NoDoc THEN "NotFound" ELSE "ok"))
    \/ DeleteRoom /\ NoRec
    \/ Tick /\ NoRec

SpecBeat == Init /\ [][NextBeat]_vars

\* every function that writes, called by the players while the host may
\* delete the room, with at most RetInFlight writes issued and not yet
\* committed; the outcome of each write is recorded in the step that commits
\* it, and that of finishGame, which does not read, in its own step: "ok",
\* or the "NotFound" with which updateDoc rejects
NextLate ==
    \/ (\E c \in Configs, u \in Hosts : CreateRoom(c, u)) /\ NoRec
    \/ \E u \in Joiners : RetCanIssue /\ JoinRoom(u) /\ NoRec
    \/ \E u \in Clients, b \in BOOLEAN :
            RetCanIssue /\ UpdatePlayerReady(u, b) /\ NoRec
    \/ \E u \in Clients, s \in GuessStrings :
            RetCanIssue /\ SetPlayerSecret(u, s) /\ NoRec
    \/ RetCanIssue /\ StartGame /\ NoRec
    \/ \E u \in Clients, g \in GuessStrings :
            RetCanIssue /\ SubmitGuess(u, g) /\ NoRec
    \/ \E u \in Clients : RetCanIssue /\ UpdatePlayerActive(u) /\ NoRec
    \/ \E w \in BagToSet(pending) :
            /\ pending' = pending (-) SetToBag({w})
            /\ CommitWrite
            /\ Rec(Ret(w.op, w.uid, IF doc' = NoDoc THEN "NotFound" ELSE "ok"))
    \/ /\ FinishGame
       /\ Rec(Ret("finishGame", NoUid,
                  IF doc' = NoDoc THEN "NotFound" ELSE "ok"))
    \/ DeleteRoom /\ NoRec

SpecLate == Init /\ [][NextLate]_vars

\* the lobby functions when every user, the host included, may call
\* joinRoom, with at most RetInFlight writes issued and not yet committed
NextSelf ==
    \/ (\E c \in Configs, u \in Hosts : CreateRoom(c, u)) /\ UNCHANGED obs
    \/ \E u \in Uids : RetCanIssue /\ JoinRoom(u) /\ UNCHANGED obs
    \/ \E u \in Uids, b \in BOOLEAN :
            RetCanIssue /\ UpdatePlayerReady(u, b) /\ UNCHANGED obs
    \/ \E u \in Uids, s \in Strings :
            RetCanIssue /\ SetPlayerSecret(u, s) /\ UNCHANGED obs
    \/ RetCanIssue /\ StartGame /\ UNCHANGED obs
    \/ CommitWrite /\ UNCHANGED obs
    \/ DeleteRoom /\ UNCHANGED obs

SpecSelf == Init /\ [][NextSelf]_vars

\* the functions of roomService.ts that RoomListPage and OnlineGamePage
\* call: every function that writes but finishGame, with at most RetInFlight
\* writes issued and not yet committed
NextFlow ==
    \/ (\E c \in Configs, u \in Hosts : CreateRoom(c, u)) /\ UNCHANGED obs
    \/ \E u \in Joiners : RetCanIssue /\ JoinRoom(u) /\ UNCHANGED obs
    \/ \E u \in Clients, b \in BOOLEAN :
            RetCanIssue /\ UpdatePlayerReady(u, b) /\ UNCHANGED obs
    \/ \E u \in Clients, s \in Strings :
            RetCanIssue /\ SetPlayerSecret(u, s) /\ UNCHANGED obs
    \/ RetCanIssue /\ StartGame /\ UNCHANGED obs
    \/ \E u \in Clients, g \in GuessStrings :
            RetCanIssue /\ SubmitGuess(u, g) /\ UNCHANGED obs
    \/ \E u \in Clients :
            RetCanIssue /\ UpdatePlayerActive(u) /\ UNCHANGED obs
    \/ CommitWrite /\ UNCHANGED obs
    \/ LeaveRoomAsGuest /\ UNCHANGED obs
    \/ DeleteRoom /\ UNCHANGED obs

SpecFlow == Init /\ [][NextFlow]_vars

\* the player u has no call in flight
NoCallOf(u) == \A w \in BagToSet(pending) : w.uid # u

\* the lobby functions of the two players while the clock runs, each player
\* with one call in flight at most, and every commit recorded: the write
\* committed and the record it was committed on. Every other step clears the
\* record.
NextPair ==
    \/ (\E c \in Configs, u \in Hosts : CreateRoom(c, u)) /\ NoRec
    \/ \E u \in Joiners : Awaited /\ JoinRoom(u) /\ NoRec
    \/ \E u \in Clients, b \in BOOLEAN :
            NoCallOf(u) /\ UpdatePlayerReady(u, b) /\ NoRec
    \/ \E u \in Clients, s \in GuessStrings :
            NoCallOf(u) /\ SetPlayerSecret(u, s) /\ NoRec
    \/ \E u \in Clients :
            NoCallOf(u) /\ UpdatePlayerActive(u) /\ NoRec
    \/ \E w \in BagToSet(pending) :
            /\ pending' = pending (-) SetToBag({w})
            /\ CommitWrite
            /\ Rec([op |-> "commit", w |-> w, before |-> doc])
    \/ Tick /\ NoRec

SpecPair == Init /\ [][NextPair]_vars

\* the record of a call of updatePlayerReady, setPlayerSecret or
\* updatePlayerActive: whether it went on to its updateDoc
Called(op, uid) == [op |-> op, uid |-> uid, issued |-> pending' # pending]

\* the functions that write one player's field, called by the players and by
\* an outsider while the clock runs, each user with one call in flight at
\* most; every call is recorded in its step, and every commit with the write
\* committed and the record it was committed on
NextFrame ==
    \/ (\E c \in Configs, u \in Hosts : CreateRoom(c, u)) /\ NoRec
    \/ \E u \in Joiners : Awaited /\ JoinRoom(u) /\ NoRec
    \/ \E u \in Uids, b \in BOOLEAN :
            /\ NoCallOf(u)
            /\ UpdatePlayerReady(u, b)
            /\ Rec(Called("updatePlayerReady", u))
    \/ \E u \in Uids, s \in GuessStrings :
            /\ NoCallOf(u)
            /\ SetPlayerSecret(u, s)
            /\ Rec(Called("setPlayerSecret", u))
    \/ \E u \in Uids :
            /\ NoCallOf(u)
            /\ UpdatePlayerActive(u)
            /\ Rec(Called("updatePlayerActive", u))
    \/ \E w \in BagToSet(pending) :
            /\ pending' = pending (-) SetToBag({w})
            /\ CommitWrite
            /\ Rec([op |-> "commit", w |-> w, before |-> doc])
    \/ Tick /\ NoRec

SpecFrame == Init /\ [][NextFrame]_vars

-----------------------------------------------------------------------------
(* The clients: App, RoomListPage and OnlineGamePage of each user *)

\* loading is false: no call of this user is awaited
Idle(u) == \A w \in BagToSet(pending) : w.uid # u

\* App.handleJoinRoom: OnlineGamePage is mounted with its initial state; the
\* heartbeat effect (lines 68-80) runs after the first render, so the first
\* heartbeat is due at once
Mount(u) ==
    /\ screen' = [screen EXCEPT ![u] = "game"]
    /\ view' = [view EXCEPT ![u] = NoView]
    /\ mySecret' = [mySecret EXCEPT ![u] = << >>]
    /\ timer' = [timer EXCEPT ![u] = <<now>>]

\* Unmount as it would be if the effect returned no cleanup for its interval
UnmountKeepsTimer(u) ==
    /\ screen' = [screen EXCEPT ![u] = "list"]
    /\ view' = [view EXCEPT ![u] = NoView]
    /\ mySecret' = [mySecret EXCEPT ![u] = << >>]
    /\ timer' = timer

\* App.handleExitRoom: OnlineGamePage is unmounted, its listener released
\* (line 62) and its interval cleared (line 79)
Unmount(u) ==
    /\ screen' = [screen EXCEPT ![u] = "list"]
    /\ view' = [view EXCEPT ![u] = NoView]
    /\ mySecret' = [mySecret EXCEPT ![u] = << >>]
    /\ timer' = [timer EXCEPT ![u] = << >>]

\* RoomListPage.handleCreateRoom
HandleCreateRoom(c, u) ==
    /\ screen[u] = "list"
    /\ CreateRoom(c, u)
    /\ Mount(u)
    /\ UNCHANGED <<ret, gone>>

\* RoomListPage.handleJoinRoom up to the updateDoc of joinRoom: an error is
\* shown on the list, otherwise the call is awaited
HandleJoinRoom(u) ==
    /\ screen[u] = "list"
    /\ JoinRoom(u)
    /\ screen' = [screen EXCEPT ![u] =
                     IF JoinCheck(doc) = "ok" THEN "joining" ELSE "list"]
    /\ UNCHANGED <<ret, view, mySecret, timer, gone>>

\* the store commits one issued write and the call that awaited it returns;
\* for joinRoom, handleJoinRoom goes on to the game screen, or shows the error
\* when updateDoc rejected
ClientCommit ==
    \E w \in BagToSet(pending) :
        /\ pending' = pending (-) SetToBag({w})
        /\ CommitWrite
        /\ IF w.op = "joinRoom" /\ screen[w.uid] = "joining"
           THEN IF doc = NoDoc
                THEN /\ screen' = [screen EXCEPT ![w.uid] = "list"]
                     /\ UNCHANGED <<view, mySecret, timer>>
                ELSE Mount(w.uid)
           ELSE UNCHANGED <<screen, view, mySecret, timer>>
        /\ UNCHANGED <<ret, gone>>

\* OnSnapshot as it would be if the listener ignored an absent room
OnSnapshotKeepsRoom(u) ==
    /\ screen[u] = "game"
    /\ view[u] # doc
    /\ doc # NoDoc
    /\ view' = [view EXCEPT ![u] = doc]
    /\ UNCHANGED <<screen, mySecret, timer, gone>>
    /\ UNCHANGED <<doc, allocated, pending, now, joinOk, lastGuesser, ret>>

\* OnSnapshot as it would be if the listener were called with the first
\* snapshot only
OnSnapshotOnce(u) ==
    /\ screen[u] = "game"
    /\ view[u] = NoView
    /\ IF doc = NoDoc
       THEN /\ Unmount(u)
            /\ gone' = gone \cup {u}
       ELSE /\ view' = [view EXCEPT ![u] = doc]
            /\ UNCHANGED <<screen, mySecret, timer, gone>>
    /\ UNCHANGED <<doc, allocated, pending, now, joinOk, lastGuesser, ret>>

\* the listener of subscribeToRoom is called with the current snapshot
\* (lines 52-63): an absent room makes the component exit
OnSnapshot(u) ==
    /\ screen[u] = "game"
    /\ view[u] # doc
    /\ IF doc = NoDoc
       THEN /\ Unmount(u)
            /\ gone' = gone \cup {u}
       ELSE /\ view' = [view EXCEPT ![u] = doc]
            /\ UNCHANGED <<screen, mySecret, timer, gone>>
    /\ UNCHANGED <<doc, allocated, pending, now, joinOk, lastGuesser, ret>>

\* handleExit (lines 85-100): the button is on every screen drawn once a
\* room is loaded; the screen is left whether or not the call failed
HandleExit(u) ==
    /\ screen[u] = "game"
    /\ view[u] # NoView
    /\ IF view[u].host.uid = u THEN DeleteRoom ELSE LeaveRoomAsGuest
    /\ Unmount(u)
    /\ UNCHANGED <<ret, gone>>

\* handleGenerateSecret (lines 105-120), from the button of the waiting
\* screen (lines 283-299)
HandleGenerateSecret(u, secret) ==
    /\ screen[u] = "game"
    /\ view[u] # NoView
    /\ view[u].status = "waiting"
    /\ ~HasSecret(MyPlayer(view[u], u))
    /\ Idle(u)
    /\ mySecret' = [mySecret EXCEPT ![u] = secret]
    /\ SetPlayerSecret(u, secret)
    /\ UNCHANGED <<ret, screen, view, timer, gone>>

\* handleToggleReady (lines 125-138), from the button of the waiting screen
\* (lines 302-314)
HandleToggleReady(u) ==
    /\ screen[u] = "game"
    /\ view[u] # NoView
    /\ view[u].status = "waiting"
    /\ HasSecret(MyPlayer(view[u], u))
    /\ Idle(u)
    /\ UpdatePlayerReady(u, ~IsReady(MyPlayer(view[u], u)))
    /\ UNCHANGED obs

\* handleStartGame (lines 143-158), from the button of the waiting screen
\* (lines 317-325)
HandleStartGame(u) ==
    /\ screen[u] = "game"
    /\ view[u] # NoView
    /\ view[u].status = "waiting"
    /\ view[u].host.isReady /\ IsReady(view[u].guest)
    /\ Idle(u)
    /\ \A w \in BagToSet(pending) : w.op # "startGame"
    /\ StartGame
    /\ UNCHANGED obs

\* handleSubmitGuess (lines 163-198), from the form of the playing screen
\* (lines 396-423)
HandleSubmitGuess(u, guess) ==
    /\ screen[u] = "game"
    /\ view[u] # NoView
    /\ view[u].status = "playing"
    /\ ~IWon(view[u], u)
    /\ ~OpponentWon(view[u], u, mySecret[u])
    /\ IsMyTurn(view[u], u)
    /\ Idle(u)
    /\ ValidGuess(guess, view[u].config)
    /\ ~IsTurnLimitReached(Len(GuessesOf(MyPlayer(view[u], u))),
                           view[u].config)
    /\ SubmitGuess(u, guess)
    /\ UNCHANGED obs

\* the clients of a host and of a guest before and after the game starts:
\* each acts on what it is shown, and may leave
NextLobby ==
    \/ \E c \in Configs, u \in Hosts : HandleCreateRoom(c, u)
    \/ \E u \in Joiners : HandleJoinRoom(u)
    \/ ClientCommit
    \/ \E u \in Clients : OnSnapshot(u)
    \/ \E u \in Clients : HandleExit(u)
    \/ \E u \in Clients, s \in Strings : HandleGenerateSecret(u, s)
    \/ \E u \in Clients : HandleToggleReady(u)
    \/ \E u \in Clients : HandleStartGame(u)

\* every listener that has a snapshot to deliver is eventually called
SpecLobby ==
    /\ Init
    /\ [][NextLobby]_vars
    /\ \A u \in Clients : WF_vars(OnSnapshot(u))

\* the clients of a host and of a guest who stay for a game of four digits
NextGame ==
    \/ \E c \in GameConfigs, u \in Hosts : HandleCreateRoom(c, u)
    \/ \E u \in Joiners : HandleJoinRoom(u)
    \/ ClientCommit
    \/ \E u \in Clients : OnSnapshot(u)
    \/ \E u \in Clients, s \in GameStrings : HandleGenerateSecret(u, s)
    \/ \E u \in Clients : HandleToggleReady(u)
    \/ \E u \in Clients : HandleStartGame(u)
    \/ \E u \in Clients, g \in GameStrings : HandleSubmitGuess(u, g)

SpecGame == Init /\ [][NextGame]_vars

-----------------------------------------------------------------------------
(* Pure functions: each is applied to an input the initial state holds *)

\* the state of the store and of the clients before anything is called
Quiet ==
    /\ doc = NoDoc
    /\ allocated = FALSE
    /\ pending = EmptyBag
    /\ joinOk = {}
    /\ lastGuesser = "none"
    /\ screen = [u \in Uids |-> "list"]
    /\ view = [u \in Uids |-> NoView]
    /\ mySecret = [u \in Uids |-> << >>]
    /\ timer = [u \in Uids |-> << >>]
    /\ gone = {}

\* the step applies a pure function: only the record of the call changes
Pure == UNCHANGED <<doc, allocated, pending, now, joinOk, lastGuesser, cvars>>

\* the record of a call holds its result
Returned == "result" \in DOMAIN ret

\* milliseconds in a second, and ONLINE_THRESHOLD
Second == 1000
OnlineThreshold == 30 * Second

\* IsPlayerOnline as it would be with the threshold included
IsPlayerOnlineInclusive(lastActiveAt) == now - lastActiveAt <= OnlineThreshold

\* isPlayerOnline (OnlineGamePage.tsx, lines 43-47)
IsPlayerOnline(lastActiveAt) == now - lastActiveAt < OnlineThreshold

\* the ages checked: every second up to MaxAge, a clock that runs behind by a
\* second, and a millisecond before and after each
PresenceAges ==
    { a * Second + d : a \in (-1)..MaxAge, d \in {-1, 0, 1} }

InitPresence ==
    /\ Quiet
    /\ now = (MaxAge + 1) * Second
    /\ ret \in { [op |-> "isPlayerOnline", lastActiveAt |-> now - a] :
                    a \in PresenceAges }

\* the page is drawn: isPlayerOnline(lastActiveAt)
CallIsPlayerOnline ==
    /\ ret.op = "isPlayerOnline"
    /\ ~Returned
    /\ ret' = [op |-> "isPlayerOnline", lastActiveAt |-> ret.lastActiveAt,
               result |-> IsPlayerOnline(ret.lastActiveAt)]
    /\ Pure

NextPresence == CallIsPlayerOnline

SpecPresence == InitPresence /\ [][NextPresence]_vars

\* getWaitingRooms: the default of maxCount
DefaultMaxCount == 20

\* the arguments of a call: << >> when maxCount is omitted
MaxCountOf(args) == IF Len(args) = 0 THEN DefaultMaxCount ELSE args[1]

\* the room with id i of a collection: what createRoom wrote at time t, with
\* the status it has since
ListedRoom(i, status, t) ==
    [NewRoom([digits |-> Digits, allowDuplicate |-> FALSE,
              maxTurns |-> DefaultMaxTurns], "u1", t)
        EXCEPT !.id = i, !.status = status]

\* what became of the room with id i: every room waits, every other room was
\* started, the rooms were started, finished or deleted in turn, no room
\* waits
StatusPattern(p, i) ==
    CASE p = 1 -> "waiting"
      [] p = 2 -> IF i % 2 = 0 THEN "playing" ELSE "waiting"
      [] p = 3 -> <<"waiting", "playing", "finished", "deleted">>[(i % 4) + 1]
      [] p = 4 -> IF i % 2 = 0 THEN "playing" ELSE "finished"

\* createdAt of the room with id i: in the order of the ids, scattered with
\* ties, the same for every room
CreatedPattern(q, i) ==
    CASE q = 1 -> i
      [] q = 2 -> (i * 5) % 7
      [] q = 3 -> 0

\* the documents of 'rooms' after n rooms were created: a deleted room has
\* no document
Collection(n, p, q) ==
    { ListedRoom(i, StatusPattern(p, i), CreatedPattern(q, i)) :
        i \in { j \in 1..n : StatusPattern(p, j) # "deleted" } }

\* orderBy('createdAt', 'desc'): the store breaks ties by document id, in
\* the same direction
Newer(a, b) ==
    \/ a.createdAt > b.createdAt
    \/ a.createdAt = b.createdAt /\ a.id > b.id

RECURSIVE OrderDesc(_)
OrderDesc(S) ==
    IF S = {} THEN << >>
    ELSE LET m == CHOOSE a \in S : \A b \in S \ {a} : Newer(a, b)
         IN  <<m>> \o OrderDesc(S \ {m})

\* limit(n)
Limit(seq, n) == SubSeq(seq, 1, IF Len(seq) < n THEN Len(seq) ELSE n)

\* GetWaitingRooms as it would be without where('status', '==', 'waiting')
GetWaitingRoomsAnyStatus(rooms, args) ==
    Limit(OrderDesc(rooms), MaxCountOf(args))

\* getWaitingRooms (roomService.ts, lines 236-247)
GetWaitingRooms(rooms, args) ==
    Limit(OrderDesc({ r \in rooms : r.status = "waiting" }), MaxCountOf(args))

\* maxCount omitted, or given
ListArgs == { << >>, <<1>>, <<2>>, <<DefaultMaxCount>>, <<MaxRooms + 1>> }

InitList ==
    /\ Quiet
    /\ now = 0
    /\ ret \in { [op |-> "getWaitingRooms", rooms |-> Collection(n, p, q),
                   args |-> a] :
                    n \in 0..MaxRooms, p \in 1..4, q \in 1..3, a \in ListArgs }

\* fetchRooms (RoomListPage): getWaitingRooms on the collection as it is
CallGetWaitingRooms ==
    /\ ret.op = "getWaitingRooms"
    /\ ~Returned
    /\ ret' = [op |-> "getWaitingRooms", rooms |-> ret.rooms,
               args |-> ret.args,
               result |-> GetWaitingRooms(ret.rooms, ret.args)]
    /\ Pure

NextList == CallGetWaitingRooms

SpecList == InitList /\ [][NextList]_vars

\* Includes as it would be if only the first character were looked at
IncludesFirst(str, c) == Len(str) > 0 /\ str[1] = c

\* secret.includes(c)
Includes(str, c) == \E j \in 1..Len(str) : str[j] = c

\* CheckGuessLoop as it would be if a digit at its place counted as a blow
\* as well
RECURSIVE CheckGuessLoopBoth(_, _, _, _, _)
CheckGuessLoopBoth(secret, guess, i, hit, blow) ==
    IF i > Len(secret) THEN [hit |-> hit, blow |-> blow]
    ELSE IF i <= Len(guess) /\ secret[i] = guess[i]
         THEN CheckGuessLoopBoth(secret, guess, i + 1, hit + 1, blow + 1)
    ELSE IF i <= Len(guess) /\ Includes(secret, guess[i])
         THEN CheckGuessLoopBoth(secret, guess, i + 1, hit, blow + 1)
    ELSE CheckGuessLoopBoth(secret, guess, i + 1, hit, blow)

\* checkGuess (gameLogic, lines 86-102): the loop from position i on, with
\* the counts so far; beyond the end of guess, guess[i] is undefined and
\* counts as neither
RECURSIVE CheckGuessLoop(_, _, _, _, _)
CheckGuessLoop(secret, guess, i, hit, blow) ==
    IF i > Len(secret) THEN [hit |-> hit, blow |-> blow]
    ELSE IF i <= Len(guess) /\ secret[i] = guess[i]
         THEN CheckGuessLoop(secret, guess, i + 1, hit + 1, blow)
    ELSE IF i <= Len(guess) /\ Includes(secret, guess[i])
         THEN CheckGuessLoop(secret, guess, i + 1, hit, blow + 1)
    ELSE CheckGuessLoop(secret, guess, i + 1, hit, blow)

\* the strings of n digits
DigitStrings(n) == [1..n -> 1..MaxDigit]

InitEval ==
    /\ Quiet
    /\ now = 0
    /\ \/ \E n \in 1..Digits :
            \E s \in DigitStrings(n), g \in DigitStrings(n) :
                ret = [op |-> "checkGuess", secret |-> s, guess |-> g]
       \/ \E h \in 0..Digits, b \in 0..Digits, n \in 1..Digits :
            ret = [op |-> "isGameClear",
                   input |-> [hit |-> h, blow |-> b], config |-> [digits |-> n]]

\* checkGuess(secret, guess)
CallCheckGuess ==
    /\ ret.op = "checkGuess"
    /\ ~Returned
    /\ ret' = SetField(ret, "result",
                       CheckGuessLoop(ret.secret, ret.guess, 1, 0, 0))
    /\ Pure

\* isGameClear(result, config), on a result given or, as getGuessResults
\* and the win detection do, on the result of checkGuess in a game whose
\* digits is the length of the secret
CallIsGameClear ==
    /\ \/ /\ ret.op = "isGameClear"
          /\ ~Returned
          /\ ret' = SetField(ret, "result",
                             IsGameClear(ret.input, ret.config))
       \/ /\ ret.op = "checkGuess"
          /\ Returned
          /\ "clear" \notin DOMAIN ret
          /\ ret' = SetField(ret, "clear",
                             IsGameClear(ret.result,
                                               [digits |-> Len(ret.secret)]))
    /\ Pure

NextEval == CallCheckGuess \/ CallIsGameClear

SpecEval == InitEval /\ [][NextEval]_vars

\* the characters of an input are numbers: 0..9 are the digits, and
\* NonDigitChar is a character that \d does not match
NonDigitChar == 10
IsDigitChar(c) == c \in 0..9

\* /^\d+$/.test(str)
OnlyDigits(str) == Len(str) > 0 /\ \A i \in 1..Len(str) : IsDigitChar(str[i])

\* ValidateGuess as it would be with the characters tested before the length
ValidateGuessCharsFirst(guess, config) ==
    IF ~OnlyDigits(guess) THEN "NonDigitCharacter"
    ELSE IF Len(guess) # config.digits THEN "WrongLength"
    ELSE IF /\ ~config.allowDuplicate
            /\ Cardinality({ guess[i] : i \in 1..Len(guess) }) # config.digits
         THEN "DuplicateNotAllowed"
    ELSE "null"

\* validateGuess (gameLogic, lines 56-78): the reason of the message it
\* returns, or "null"
ValidateGuess(guess, config) ==
    IF Len(guess) # config.digits THEN "WrongLength"
    ELSE IF ~OnlyDigits(guess) THEN "NonDigitCharacter"
    ELSE IF /\ ~config.allowDuplicate
            /\ Cardinality({ guess[i] : i \in 1..Len(guess) }) # config.digits
         THEN "DuplicateNotAllowed"
    ELSE "null"

\* the inputs typed: up to one character more than the longest game asks for
InputStrings(n) == [1..n -> (1..MaxDigit) \cup {NonDigitChar}]

\* the games validated: two of the digits RoomListPage offers, with and
\* without duplicates
ValidateConfigs ==
    { [digits |-> n, allowDuplicate |-> b] : n \in {3, Digits}, b \in BOOLEAN }

InitValidate ==
    /\ Quiet
    /\ now = 0
    /\ \E n \in 0..(Digits + 1) :
          \E x \in InputStrings(n), c \in ValidateConfigs :
              ret = [op |-> "validateGuess", input |-> x, config |-> c]

\* handleSubmitGuess: validateGuess(currentGuess, room.config)
CallValidateGuess ==
    /\ ret.op = "validateGuess"
    /\ ~Returned
    /\ ret' = SetField(ret, "result", ValidateGuess(ret.input, ret.config))
    /\ Pure

NextValidate == CallValidateGuess

SpecValidate == InitValidate /\ [][NextValidate]_vars

\* availableDigits as generateRandomSecret starts with it, and the number
\* of its entries
AvailableDigits == <<0, 1, 2, 3, 4, 5, 6, 7, 8, 9>>
PoolSize == 10

\* String(n) for a number n >= 0: its decimal digits
RECURSIVE DecimalDigits(_)
DecimalDigits(n) ==
    IF n < 10 THEN <<n>> ELSE DecimalDigits(n \div 10) \o <<n % 10>>

\* result.join('')
RECURSIVE Join(_)
Join(numbers) ==
    IF numbers = << >> THEN << >>
    ELSE DecimalDigits(Head(numbers)) \o Join(Tail(numbers))

\* availableDigits.splice(index, 1), index counted from 0
Splice(seq, index) ==
    SubSeq(seq, 1, index) \o SubSeq(seq, index + 2, Len(seq))

\* Math.floor(Math.random() * n) when Math.random() returns k tenths
RandomIndex(k, n) == (k * n) \div 10

\* PickDigit as it would be without the splice
PickDigitKeep(st, k) ==
    IF st.config.allowDuplicate
    THEN [st EXCEPT !.result =
              Append(@, st.availableDigits[RandomIndex(k, PoolSize) + 1])]
    ELSE LET randomIndex == RandomIndex(k, Len(st.availableDigits))
         IN  [st EXCEPT !.result =
                   Append(@, st.availableDigits[randomIndex + 1])]

\* one pass of the while loop (lines 34-44) when Math.random() returns k
\* tenths
PickDigit(st, k) ==
    IF st.config.allowDuplicate
    THEN [st EXCEPT !.result =
              Append(@, st.availableDigits[RandomIndex(k, PoolSize) + 1])]
    ELSE LET randomIndex == RandomIndex(k, Len(st.availableDigits))
         IN  [st EXCEPT !.result =
                   Append(@, st.availableDigits[randomIndex + 1]),
                        !.availableDigits = Splice(@, randomIndex)]

\* line 29: the configuration is refused
SecretRefused(config) == ~config.allowDuplicate /\ config.digits > PoolSize

\* the configurations given: short ones, and those around the size of the
\* pool
SecretConfigs ==
    { [digits |-> n, allowDuplicate |-> b] :
        n \in (1..MaxSecretLen) \cup {PoolSize, PoolSize + 1}, b \in BOOLEAN }

\* the values of Math.random() taken, in tenths: all of them for a short
\* configuration, the least and the greatest for a long one
RandomOutcomes(config) ==
    IF config.digits <= MaxSecretLen THEN 0..9 ELSE {0, 9}

InitSecret ==
    /\ Quiet
    /\ now = 0
    /\ \E c \in SecretConfigs :
          ret = [op |-> "generateRandomSecret", config |-> c, at |-> "call",
                 availableDigits |-> AvailableDigits, result |-> << >>]

\* lines 25-31: the locals are set up and the configuration is checked
SecretEnter ==
    /\ ret.op = "generateRandomSecret"
    /\ ret.at = "call"
    /\ ret' = [ret EXCEPT !.at = IF SecretRefused(ret.config)
                                 THEN "thrown" ELSE "loop"]
    /\ Pure

\* lines 33-45: one pass of the loop
SecretLoop ==
    /\ ret.op = "generateRandomSecret"
    /\ ret.at = "loop"
    /\ Len(ret.result) < ret.config.digits
    /\ \E k \in RandomOutcomes(ret.config) : ret' = PickDigit(ret, k)
    /\ Pure

\* line 47: the loop is left and the digits are joined
SecretReturn ==
    /\ ret.op = "generateRandomSecret"
    /\ ret.at = "loop"
    /\ ~(Len(ret.result) < ret.config.digits)
    /\ ret' = SetField([ret EXCEPT !.at = "done"], "value", Join(ret.result))
    /\ Pure

NextSecret == SecretEnter \/ SecretLoop \/ SecretReturn

\* a call that can take a step takes it
SpecSecret == InitSecret /\ [][NextSecret]_vars /\ WF_vars(NextSecret)

-----------------------------------------------------------------------------
(* The heartbeat of OnlineGamePage (lines 68-80) under a running clock *)

\* HeartbeatInterval as it would be with a period of 15 seconds
HeartbeatIntervalSlow == 15 * Second

\* the delay of setInterval, in milliseconds
HeartbeatInterval == 10000

\* the clock is observed twice in a heartbeat period
ClockStep == HeartbeatInterval \div 2

\* the interval of u has fired, or the effect has just run
Due(u) == timer[u] # << >> /\ timer[u][1] <= now

\* the callback of the interval (and the first call of the effect):
\* updatePlayerActive is called and not awaited
Beat(u) ==
    /\ Due(u)
    /\ UpdatePlayerActive(u)
    /\ timer' = [timer EXCEPT ![u] = <<timer[u][1] + HeartbeatInterval>>]
    /\ UNCHANGED <<ret, screen, view, mySecret, gone>>

\* the heartbeat w is lost: updateDoc rejects and nothing is written.  The
\* heartbeat before it was not lost: the player's lastActiveAt is at most a
\* period older than w
Lose(w) ==
    /\ w.op = "updatePlayerActive"
    /\ doc # NoDoc
    /\ doc[w.role] # Null
    /\ w.now - doc[w.role].lastActiveAt <= HeartbeatInterval
    /\ pending' = pending (-) SetToBag({w})
    /\ UNCHANGED <<doc, allocated, now, joinOk, lastGuesser, obs>>

\* every write in flight is answered in less than a heartbeat period
Prompt ==
    \A w \in BagToSet(pending) : (now + ClockStep) - w.now < HeartbeatInterval

\* the clock advances once every interval that is due has fired
Advance ==
    /\ now < MaxBeats * HeartbeatInterval
    /\ \A u \in Uids : ~Due(u)
    /\ Prompt
    /\ now' = now + ClockStep
    /\ UNCHANGED <<doc, allocated, pending, joinOk, lastGuesser, obs>>

\* a host and a guest who enter the room and stay while the clock runs
NextPulse ==
    \/ \E c \in Configs, u \in Hosts : HandleCreateRoom(c, u)
    \/ \E u \in Joiners : HandleJoinRoom(u)
    \/ ClientCommit
    \/ \E u \in Clients : Beat(u)
    \/ \E w \in BagToSet(pending) : Lose(w)
    \/ Advance

SpecPulse == Init /\ [][NextPulse]_vars

\* a host and a guest who enter the room and leave it while the clock runs
NextExit ==
    \/ \E c \in Configs, u \in Hosts : HandleCreateRoom(c, u)
    \/ \E u \in Joiners : HandleJoinRoom(u)
    \/ ClientCommit
    \/ \E u \in Clients : OnSnapshot(u)
    \/ \E u \in Clients : HandleExit(u)
    \/ \E u \in Clients : Beat(u)
    \/ Advance

SpecExit == Init /\ [][NextExit]_vars

-----------------------------------------------------------------------------
(* Properties *)

IsPrefix(s, t) == Len(s) <= Len(t) /\ SubSeq(t, 1, Len(s)) = s

\* this step is the store committing the issued write w onto a document
Commits(w) ==
    /\ w \in BagToSet(pending)
    /\ pending' = pending (-) SetToBag({w})
    /\ doc # NoDoc

\* this step is the store committing a write of submitGuess
GuessCommits(w) == Commits(w) /\ w.op = "submitGuess"

BothReady(d) == d.host.isReady /\ IsReady(d.guest)
BothSecrets(d) == HasSecret(d.host) /\ HasSecret(d.guest)

\* C1: for one room, at most one joinRoom call (by different uids) returns
\* success, and a guest slot that holds a player is never given to a player
\* with another uid.
C1_SingleJoin ==
    [][ /\ Cardinality(joinOk') <= 1
        /\ (doc # NoDoc /\ doc' # NoDoc /\ doc.guest # Null)
              => /\ doc'.guest # Null
                 /\ Get(doc'.guest, "uid", NoUid) = Get(doc.guest, "uid", NoUid)
      ]_vars

\* C2: status leaves waiting only by the write of startGame, and that write
\* commits only onto a record in which both players are ready and both
\* secrets are set.
C2_StartGate ==
    [][ (doc # NoDoc /\ doc' # NoDoc /\ doc.status = "waiting"
            /\ doc'.status # "waiting")
          => /\ doc'.status = "playing"
             /\ BothReady(doc)
             /\ BothSecrets(doc)
      ]_vars

\* C3: the stored status only moves forward along waiting -> playing ->
\* finished, one step at a time.
C3_StatusMonotonic ==
    [][ (doc # NoDoc /\ doc' # NoDoc)
          => <<doc.status, doc'.status>> \in
                { <<"waiting", "waiting">>, <<"waiting", "playing">>,
                  <<"playing", "playing">>, <<"playing", "finished">>,
                  <<"finished", "finished">> }
      ]_vars

\* C4 (as claimed): in commit order the first accepted guess is by the host
\* and no two consecutive accepted guesses are by the same role.
C4_StrictAlternation ==
    [][ \A w \in BagToSet(pending) :
            GuessCommits(w)
              => IF lastGuesser = "none" THEN w.role = "host"
                 ELSE w.role # lastGuesser
      ]_vars

\* C4 (amended): currentTurn is host before any accepted guess and afterwards
\* names the role other than that of the latest accepted guess, whichever
\* role made it.
C4_TurnFollowsLastGuess ==
    doc # NoDoc
      => doc.currentTurn =
            (IF lastGuesser = "none" THEN "host" ELSE Other(lastGuesser))

\* the guest made the first accepted guess, while currentTurn named the host
C4_Witness ==
    /\ doc # NoDoc
    /\ lastGuesser = "guest"
    /\ doc.host.guesses = << >>
    /\ Len(GuessesOf(doc.guest)) = 1
    /\ doc.currentTurn = "host"

\* C5: right after the write of an accepted guess by role R commits,
\* currentTurn is the other role, whatever it was before.
C5_TurnAfterGuess ==
    [][ \A w \in BagToSet(pending) :
            GuessCommits(w) => doc'.currentTurn = Other(w.role)
      ]_vars

\* the room never had a guest and the host's second guess has committed:
\* currentTurn already named the guest before that commit
C5_Witness ==
    /\ doc # NoDoc
    /\ joinOk = {}
    /\ lastGuesser = "host"
    /\ Len(doc.host.guesses) = 2
    /\ doc.currentTurn = "guest"

\* C6: a write of submitGuess that commits while status is not playing
\* changes neither guesses nor currentTurn.
C6_GuessOnlyWhilePlaying ==
    [][ \A w \in BagToSet(pending) :
            (GuessCommits(w) /\ doc.status # "playing")
              => /\ doc'.host.guesses = doc.host.guesses
                 /\ GuessesOf(doc'.guest) = GuessesOf(doc.guest)
                 /\ doc'.currentTurn = doc.currentTurn
      ]_vars

\* C7: each player's guesses are append-only: every later value has every
\* earlier value as a prefix.
C7_GuessesAppendOnly ==
    [][ (doc # NoDoc /\ doc' # NoDoc)
          => /\ IsPrefix(doc.host.guesses, doc'.host.guesses)
             /\ IsPrefix(GuessesOf(doc.guest), GuessesOf(doc'.guest))
      ]_vars

\* C8: a secret that is set is never changed to another value.
C8_SecretWriteOnce ==
    [][ (doc # NoDoc /\ doc' # NoDoc)
          => \A r \in PlayerRole :
                HasSecret(doc[r])
                  => Get(doc'[r], "secret", << >>) = doc[r].secret
      ]_vars

\* C9: once status is playing or finished, no committed write changes a
\* player's secret or isReady.
C9_LobbyOnly ==
    [][ (doc # NoDoc /\ doc' # NoDoc /\ doc.status # "waiting")
          => \A r \in PlayerRole :
                /\ Get(doc'[r], "secret", << >>) = Get(doc[r], "secret", << >>)
                /\ IsReady(doc'[r]) = IsReady(doc[r])
      ]_vars

\* C10: on an existing room submitGuess fails only with PlayerNotFound, and
\* only for a uid that is neither host.uid nor guest.uid: it passes whatever
\* currentTurn, status and the length of the caller's guesses are.
C10_NoTurnPrecondition ==
    doc # NoDoc
      => \A u \in Uids :
            /\ SubmitCheck(doc, u) \in {"ok", "PlayerNotFound"}
            /\ (SubmitCheck(doc, u) = "ok")
                  <=> (doc.host.uid = u \/ Get(doc.guest, "uid", NoUid) = u)

\* a guest's guess was accepted beyond config.maxTurns in a room that is
\* still waiting, after a turn the guest had already taken
C10_Witness ==
    /\ doc # NoDoc
    /\ doc.status = "waiting"
    /\ lastGuesser = "guest"
    /\ doc.host.guesses = << >>
    /\ Len(GuessesOf(doc.guest)) > doc.config.maxTurns

\* C11: joinRoom throws NotFound on an absent room, otherwise AlreadyFull
\* when the guest slot is taken, otherwise NotJoinable when status is not
\* waiting; a call that throws issues no write and leaves the record as it
\* is; the write of a call that passed sets guest to a fresh player with the
\* caller's uid, role guest, isReady false, no guesses and no secret, and
\* changes nothing else but updatedAt.
C11_JoinContract ==
    [][ /\ ret'.op = "joinRoom"
          => /\ doc = NoDoc => ret'.result = "NotFound"
             /\ (doc # NoDoc /\ doc.guest # Null)
                   => ret'.result = "AlreadyFull"
             /\ (doc # NoDoc /\ doc.guest = Null /\ doc.status # "waiting")
                   => ret'.result = "NotJoinable"
             /\ (doc # NoDoc /\ doc.guest = Null /\ doc.status = "waiting")
                   => ret'.result = "ok"
             /\ doc' = doc
             /\ ret'.result # "ok" => pending' = pending
        /\ \A w \in BagToSet(pending) :
              (Commits(w) /\ w.op = "joinRoom")
                => /\ doc'.guest.uid = w.uid
                   /\ doc'.guest.role = "guest"
                   /\ doc'.guest.isReady = FALSE
                   /\ doc'.guest.guesses = << >>
                   /\ "secret" \notin DOMAIN doc'.guest
                   /\ [doc' EXCEPT !.guest = doc.guest,
                                   !.updatedAt = doc.updatedAt] = doc
      ]_vars

\* joinRoom has just thrown AlreadyFull on a room that has a guest and is no
\* longer waiting
C11_Witness ==
    /\ ret = Ret("joinRoom", "u2", "AlreadyFull")
    /\ doc # NoDoc
    /\ doc.guest # Null
    /\ doc.status # "waiting"

\* C12: on an existing room startGame throws NotReady when host.isReady is
\* false, the guest is absent or guest.isReady is false, otherwise
\* SecretsMissing when either secret is unset; a call that throws issues no
\* write and leaves the record (and so its status) as it is; the write of a
\* call that passed changes status to playing, updatedAt, and nothing else.
C12_StartContract ==
    [][ /\ (ret'.op = "startGame" /\ doc # NoDoc)
          => /\ (~doc.host.isReady \/ doc.guest = Null
                    \/ ~Get(doc.guest, "isReady", FALSE))
                   => ret'.result = "NotReady"
             /\ (/\ doc.host.isReady
                 /\ Get(doc.guest, "isReady", FALSE)
                 /\ \/ Get(doc.host, "secret", << >>) = << >>
                    \/ Get(doc.guest, "secret", << >>) = << >>)
                   => ret'.result = "SecretsMissing"
             /\ doc' = doc
             /\ ret'.result # "ok" => pending' = pending
        /\ \A w \in BagToSet(pending) :
              (Commits(w) /\ w.op = "startGame")
                => doc' = [doc EXCEPT !.status = "playing",
                                      !.updatedAt = w.now]
      ]_vars

\* startGame has just thrown SecretsMissing on a waiting room whose players
\* are both ready and whose guest has no secret
C12_Witness ==
    /\ ret = Ret("startGame", NoUid, "SecretsMissing")
    /\ doc # NoDoc
    /\ doc.status = "waiting"
    /\ doc.host.isReady
    /\ IsReady(doc.guest)
    /\ HasSecret(doc.host)
    /\ ~HasSecret(doc.guest)

\* C13: submitGuess throws NotFound on an absent room and PlayerNotFound for
\* a uid that is neither host.uid nor guest.uid (any uid but the host's
\* while the guest slot is empty); in both cases it issues no write and the
\* record, with its guesses, currentTurn and updatedAt, is as it was.
C13_SubmitRejects ==
    [][ ret'.op = "submitGuess"
          => /\ doc = NoDoc => ret'.result = "NotFound"
             /\ (/\ doc # NoDoc
                 /\ doc.host.uid # ret'.uid
                 /\ (doc.guest = Null
                        \/ Get(doc.guest, "uid", NoUid) # ret'.uid))
                   => ret'.result = "PlayerNotFound"
             /\ ret'.result \in {"NotFound", "PlayerNotFound"}
                   => pending' = pending
             /\ doc' = doc
      ]_vars

\* submitGuess by a uid other than the host's has just thrown PlayerNotFound
\* on a room whose guest slot is empty
C13_Witness ==
    /\ ret = Ret("submitGuess", "u2", "PlayerNotFound")
    /\ doc # NoDoc
    /\ doc.guest = Null

C15_LeaveReopens ==
    [][ (ret'.op = "leaveRoomAsGuest" /\ doc # NoDoc /\ doc.guest # Null)
          => /\ doc'.guest = Null
             /\ doc'.status = "waiting"
             /\ doc'.host = doc.host
             /\ doc'.config = doc.config
             /\ doc'.currentTurn = doc.currentTurn
             /\ JoinCheck(doc') = "ok"
      ]_vars

\* both users have joined in turn: the first guest left a room in which the
\* host had guessed, and the user with the other uid holds the guest slot of
\* the room, which is waiting
C15_Witness ==
    /\ doc # NoDoc
    /\ joinOk = OpenJoiners
    /\ doc.guest # Null
    /\ doc.status = "waiting"
    /\ doc.host.guesses # << >>
    /\ GuessesOf(doc.guest) = << >>

C17_ClientsAgree ==
    \A h \in Hosts, g \in Joiners :
        (/\ view[h] # NoView
         /\ view[g] = view[h]
         /\ view[h].status = "playing"
         /\ view[h].host.uid = h
         /\ Get(view[h].guest, "uid", NoUid) = g)
          => LET r == view[h] IN
             /\ IWon(r, h) <=> OpponentWon(r, g, mySecret[g])
             /\ IWon(r, g) <=> OpponentWon(r, h, mySecret[h])
             /\ ~(Banner(r, h, mySecret[h]) = "win"
                    /\ Banner(r, g, mySecret[g]) = "win")
             /\ ~(Banner(r, h, mySecret[h]) = "loss"
                    /\ Banner(r, g, mySecret[g]) = "loss")

\* C18: in a game of four digits without duplicates, when the write of a
\* guess by the host that equals the guest's stored secret commits on the
\* playing room, the guess is the last entry of the host's guesses, it
\* evaluates against the guest's secret to hit 4 and blow 0, the host's
\* client derives iWon and the guest's client opponentWon, and unless the
\* guest has itself cleared the game the host is shown the win and the guest
\* the loss.
C18_HostWinRun ==
    [][ \A w \in BagToSet(pending) :
          (/\ GuessCommits(w)
           /\ w.role = "host"
           /\ doc.status = "playing"
           /\ doc.config.digits = Digits
           /\ HasSecret(doc.guest)
           /\ w.str = doc.guest.secret)
            => LET h == doc'.host.uid
                   g == doc'.guest.uid
               IN  /\ doc'.host.guesses[Len(doc'.host.guesses)] = w.str
                   /\ CheckGuess(doc'.guest.secret, w.str)
                         = [hit |-> 4, blow |-> 0]
                   /\ IWon(doc', h)
                   /\ OpponentWon(doc', g, mySecret[g])
                   /\ ~IWon(doc', g)
                         => /\ Banner(doc', h, mySecret[h]) = "win"
                            /\ Banner(doc', g, mySecret[g]) = "loss"
      ]_vars

\* the run has happened: one user joined, the game was started with both
\* players ready, the host's first guess was the guest's secret, and both
\* clients hold the snapshot, the host shown the win and the guest the loss
C18_Witness ==
    /\ doc # NoDoc
    /\ doc.status = "playing"
    /\ doc.config = [digits |-> 4, allowDuplicate |-> FALSE,
                     maxTurns |-> DefaultMaxTurns]
    /\ joinOk = {"u2"}
    /\ BothReady(doc)
    /\ BothSecrets(doc)
    /\ doc.host.guesses = <<doc.guest.secret>>
    /\ GuessesOf(doc.guest) = << >>
    /\ doc.currentTurn = "guest"
    /\ view["u1"] = doc
    /\ view["u2"] = doc
    /\ Banner(view["u1"], "u1", mySecret["u1"]) = "win"
    /\ Banner(view["u2"], "u2", mySecret["u2"]) = "loss"

C20_CreationFieldsFixed ==
    [][ (doc # NoDoc /\ doc' # NoDoc)
          => /\ doc'.id = doc.id
             /\ doc'.config = doc.config
             /\ doc'.createdAt = doc.createdAt
             /\ doc'.host.uid = doc.host.uid
             /\ doc'.host.role = doc.host.role
      ]_vars

\* a room created after the clock had advanced once whose host and guest
\* went through the lobby and a guess by each and which was then finished at
\* a later time
C20_Witness ==
    /\ doc # NoDoc
    /\ doc.status = "finished"
    /\ joinOk = {"u2"}
    /\ doc.host.isReady
    /\ HasSecret(doc.host)
    /\ doc.host.guesses # << >>
    /\ lastGuesser = "guest"
    /\ doc.createdAt = 1
    /\ doc.updatedAt = 2
    /\ doc.host.uid = "u1"
    /\ doc.host.role = "host"
    /\ doc.id = "room"
    /\ doc.config \in Configs

C22_HeartbeatNeverFails ==
    ret.op = "updatePlayerActive" => ret.result # "NotFound"

\* C23: isPlayerOnline(lastActiveAt) is true exactly when Date.now() minus
\* lastActiveAt is less than 30 seconds: true 5 and 29 seconds after
\* lastActiveAt, false 30 and 31 seconds after it.
C23_OnlineWithinThreshold ==
    (ret.op = "isPlayerOnline" /\ Returned)
      => LET age == now - ret.lastActiveAt IN
         /\ ret.result <=> (age < 30 * Second)
         /\ age \in {5 * Second, 29 * Second} => ret.result
         /\ age \in {30 * Second, 31 * Second} => ~ret.result

\* a player last active exactly 30 seconds ago was found offline
C23_Witness ==
    /\ ret.op = "isPlayerOnline"
    /\ Returned
    /\ now - ret.lastActiveAt = 30 * Second
    /\ ~ret.result

\* C24: getWaitingRooms returns rooms of the collection whose status is
\* waiting, each once, in descending order of createdAt, as many as there
\* are waiting rooms up to maxCount (20 when it is omitted), and no waiting
\* room it leaves out is newer than one it returns; a room that was started,
\* finished or deleted is not returned.
C24_WaitingRoomsNewestFirst ==
    (ret.op = "getWaitingRooms" /\ Returned)
      => LET res == ret.result
             waiting == { r \in ret.rooms : r.status = "waiting" }
             max == IF ret.args = << >> THEN 20 ELSE ret.args[1]
             n == Cardinality(waiting)
         IN  /\ \A i \in 1..Len(res) : res[i] \in waiting
             /\ \A i, j \in 1..Len(res) :
                   i < j => /\ res[i].createdAt >= res[j].createdAt
                            /\ res[i] # res[j]
             /\ Len(res) = IF n < max THEN n ELSE max
             /\ \A r \in waiting :
                   (\A i \in 1..Len(res) : res[i] # r)
                     => \A i \in 1..Len(res) : r.createdAt <= res[i].createdAt

\* getWaitingRooms without maxCount on 22 waiting rooms returned the 20
\* newest
C24_Witness ==
    /\ ret.op = "getWaitingRooms"
    /\ Returned
    /\ ret.args = << >>
    /\ Cardinality({ r \in ret.rooms : r.status = "waiting" }) = 22
    /\ Len(ret.result) = 20
    /\ ret.result[1].createdAt = 22
    /\ ret.result[20].createdAt = 3

\* the positions of str that hold d
Count(str, d) == Cardinality({ i \in 1..Len(str) : str[i] = d })

\* the sum over the digits 1..d of the smaller of the two counts
RECURSIVE SumMin(_, _, _)
SumMin(secret, guess, d) ==
    IF d = 0 THEN 0
    ELSE (IF Count(secret, d) < Count(guess, d)
          THEN Count(secret, d) ELSE Count(guess, d))
         + SumMin(secret, guess, d - 1)

\* blow by the strict rule
StrictBlow(secret, guess) ==
    SumMin(secret, guess, MaxDigit) - Hit(secret, guess)

\* the call of checkGuess on strings of equal length has returned
Evaluated == ret.op = "checkGuess" /\ Returned

\* C25: for a secret and a guess of equal length checkGuess returns as hit
\* the number of positions that hold the same digit in both and as blow the
\* number of the other positions whose digit in guess occurs in secret; so
\* hit + blow is at most the length, a guess equal to the secret gives all
\* hit and no blow, a rearrangement of a secret of distinct digits that
\* leaves no digit in place gives no hit and all blow, and a guess that
\* shares no digit with the secret gives neither.
C25_HitAndBlowCounts ==
    Evaluated
      => LET s == ret.secret
             g == ret.guess
             n == Len(s)
             r == ret.result
         IN  /\ r.hit = Cardinality({ i \in 1..n : s[i] = g[i] })
             /\ r.blow = Cardinality({ i \in 1..n :
                                         /\ s[i] # g[i]
                                         /\ \E j \in 1..n : s[j] = g[i] })
             /\ r = CheckGuess(s, g)
             /\ r.hit + r.blow <= n
             /\ g = s => r = [hit |-> n, blow |-> 0]
             /\ (/\ \A i, j \in 1..n : i # j => s[i] # s[j]
                 /\ { g[i] : i \in 1..n } = { s[i] : i \in 1..n }
                 /\ \A i \in 1..n : g[i] # s[i])
                   => r = [hit |-> 0, blow |-> n]
             /\ { g[i] : i \in 1..n } \cap { s[i] : i \in 1..n } = {}
                   => r = [hit |-> 0, blow |-> 0]

\* checkGuess('1234', '1243') has returned two hits and two blows
C25_Witness ==
    /\ Evaluated
    /\ ret.secret = <<1, 2, 3, 4>>
    /\ ret.guess = <<1, 2, 4, 3>>
    /\ ret.result = [hit |-> 2, blow |-> 2]

\* C26: the blow checkGuess returns is never less than the blow of the
\* strict rule (for each digit the smaller of its counts in secret and in
\* guess, summed, minus hit), it is the same whenever no digit is repeated
\* in the guess, and it is larger for the secret 1234 and the guess 1111.
C26_BlowAtLeastStrict ==
    Evaluated
      => LET s == ret.secret
             g == ret.guess
             n == Len(s)
         IN  /\ ret.result.blow >= StrictBlow(s, g)
             /\ (\A i, j \in 1..n : i # j => g[i] # g[j])
                   => ret.result.blow = StrictBlow(s, g)
             /\ (s = <<1, 2, 3, 4>> /\ g = <<1, 1, 1, 1>>)
                   => ret.result.blow > StrictBlow(s, g)

\* checkGuess('1234', '1111') has returned one hit and three blows, where
\* the strict rule has no blow
C26_Witness ==
    /\ Evaluated
    /\ ret.secret = <<1, 2, 3, 4>>
    /\ ret.guess = <<1, 1, 1, 1>>
    /\ ret.result = [hit |-> 1, blow |-> 3]
    /\ StrictBlow(ret.secret, ret.guess) = 0

\* C29: isGameClear(result, config) is true exactly when result.hit is
\* config.digits, whatever result.blow is; so for a secret and a guess of
\* config.digits digits each, isGameClear of the result of checkGuess is
\* true exactly when the guess is the secret.
C29_ClearIffAllHit ==
    /\ (ret.op = "isGameClear" /\ Returned)
          => (ret.result <=> ret.input.hit = ret.config.digits)
    /\ (ret.op = "checkGuess" /\ "clear" \in DOMAIN ret)
          => (ret.clear <=> ret.guess = ret.secret)

\* isGameClear has returned true for a result of three hits and one blow in
\* a game of three digits
C29_Witness ==
    /\ ret.op = "isGameClear"
    /\ Returned
    /\ ret.input = [hit |-> 3, blow |-> 1]
    /\ ret.config.digits = 3
    /\ ret.result

\* C27: validateGuess returns WrongLength when the length of the input is
\* not config.digits, otherwise NonDigitCharacter when some character is
\* not a digit, otherwise DuplicateNotAllowed when allowDuplicate is false
\* and the input has fewer than config.digits distinct characters, otherwise
\* no error: the first check that fails decides, and there is no error
\* exactly when all three pass.
C27_ValidateOrder ==
    (ret.op = "validateGuess" /\ Returned)
      => LET x == ret.input
             c == ret.config
             wrongLength == Len(x) # c.digits
             nonDigit == \E i \in 1..Len(x) : x[i] \notin 0..9
             duplicate ==
                 /\ ~c.allowDuplicate
                 /\ Cardinality({ x[i] : i \in 1..Len(x) }) < c.digits
         IN  /\ ret.result =
                   (IF wrongLength THEN "WrongLength"
                    ELSE IF nonDigit THEN "NonDigitCharacter"
                    ELSE IF duplicate THEN "DuplicateNotAllowed"
                    ELSE "null")
             /\ (ret.result = "null")
                   <=> (~wrongLength /\ ~nonDigit /\ ~duplicate)
             /\ ~nonDigit
                   => (ValidGuess(x, c) <=> ret.result = "null")

\* an input of three characters with a letter was given to a game of four
\* digits: WrongLength
C27_Witness ==
    /\ ret.op = "validateGuess"
    /\ Returned
    /\ ret.input = <<1, NonDigitChar, 2>>
    /\ ret.config = [digits |-> 4, allowDuplicate |-> FALSE]
    /\ ret.result = "WrongLength"

\* C28: for digits >= 1, and digits <= 10 when allowDuplicate is false,
\* generateRandomSecret ends whatever Math.random() returns, and returns a
\* string of exactly config.digits characters, each a digit, no two the same
\* when allowDuplicate is false; when allowDuplicate is false and digits is
\* more than 10 it throws before it has produced a digit.
C28_SecretWellFormed ==
    /\ [](ret.op = "generateRandomSecret"
            => /\ ret.at = "done"
                  => /\ Len(ret.value) = ret.config.digits
                     /\ \A i \in 1..Len(ret.value) : ret.value[i] \in 0..9
                     /\ ~ret.config.allowDuplicate
                           => \A i, j \in 1..Len(ret.value) :
                                 i # j => ret.value[i] # ret.value[j]
               /\ ret.at = "thrown"
                  => /\ ~ret.config.allowDuplicate
                     /\ ret.config.digits > 10
                     /\ ret.result = << >>
               /\ (~ret.config.allowDuplicate /\ ret.config.digits > 10)
                  => ret.at \in {"call", "thrown"})
    /\ (ret.op = "generateRandomSecret" /\ ret.at = "call")
          ~> (ret.at \in {"done", "thrown"})

\* a secret of ten digits without duplicates was returned: the pool was
\* used up
C28_Witness ==
    /\ ret.op = "generateRandomSecret"
    /\ ret.at = "done"
    /\ ~ret.config.allowDuplicate
    /\ ret.config.digits = 10
    /\ Len(ret.value) = 10
    /\ ret.availableDigits = << >>

\* the object o without its field f
Without(o, f) == [g \in (DOMAIN o) \ {f} |-> o[g]]

\* C30: while only the functions the components call run (createRoom,
\* joinRoom, setPlayerSecret, updatePlayerReady, startGame, submitGuess,
\* updatePlayerActive, leaveRoomAsGuest, deleteRoom), the stored status is
\* never finished; and when the write of a guess that is the other player's
\* secret commits on a playing room, the record changes in that player's
\* guesses, currentTurn and updatedAt only (a guest slot that was emptied
\* meanwhile holds the guesses and nothing else), and status is still
\* playing.
C30_WinNotStored ==
    /\ [](doc # NoDoc => doc.status # "finished")
    /\ [][ \A w \in BagToSet(pending) :
              (/\ GuessCommits(w)
               /\ doc.status = "playing"
               /\ w.str = Get(doc[Other(w.role)], "secret", << >>))
                => /\ doc'.status = "playing"
                   /\ [doc' EXCEPT ![w.role] = doc[w.role],
                                   !.currentTurn = doc.currentTurn,
                                   !.updatedAt = doc.updatedAt] = doc
                   /\ IF doc[w.role] = Null
                      THEN DOMAIN doc'[w.role] = {"guesses"}
                      ELSE Without(doc'[w.role], "guesses")
                              = Without(doc[w.role], "guesses")
       ]_vars

\* the guest's guess was the host's secret and its write has committed: the
\* room is still playing and it is the host's turn
C30_Witness ==
    /\ doc # NoDoc
    /\ doc.status = "playing"
    /\ lastGuesser = "guest"
    /\ HasSecret(doc.host)
    /\ GuessesOf(doc.guest) = <<doc.host.secret>>
    /\ doc.currentTurn = "host"
    /\ pending = EmptyBag

\* C31: when the write of startGame commits on a waiting room, currentTurn
\* is host and neither player has a guess.
C31_FreshGameAtStart ==
    [][ \A w \in BagToSet(pending) :
          (Commits(w) /\ w.op = "startGame" /\ doc.status = "waiting")
            => /\ doc'.status = "playing"
               /\ doc'.currentTurn = "host"
               /\ doc'.host.guesses = << >>
               /\ GuessesOf(doc'.guest) = << >>
      ]_vars

\* the write w carries fields of one player only
FieldScoped(w) ==
    w.op \in {"updatePlayerReady", "setPlayerSecret", "updatePlayerActive"}

\* the field of the player that w writes, and the value it carries
FieldOf(w) ==
    CASE w.op = "updatePlayerReady" -> "isReady"
      [] w.op = "setPlayerSecret" -> "secret"
      [] w.op = "updatePlayerActive" -> "lastActiveAt"
ValueOf(w) ==
    CASE w.op = "updatePlayerReady" -> w.flag
      [] w.op = "setPlayerSecret" -> w.str
      [] w.op = "updatePlayerActive" -> w.now

\* the records a and b differ in updatedAt at most
SameButUpdatedAt(a, b) == [a EXCEPT !.updatedAt = b.updatedAt] = b

\* C32: when a write of the host's fields and a write of the guest's
\* fields, both issued before either committed, commit one after the other,
\* the record holds the value of each, every other field of the two players
\* and of the room is as it was, and the record is, updatedAt aside, the one
\* the two writes give in the other order.
C32_PlayerWritesCommute ==
    [][ \A w2 \in BagToSet(pending) :
          (/\ ret.op = "commit"
           /\ ret.before # NoDoc
           /\ ret.before.guest # Null
           /\ Commits(w2)
           /\ FieldScoped(ret.w) /\ FieldScoped(w2)
           /\ ret.w.role # w2.role)
            => LET w1 == ret.w
                   base == ret.before
               IN  /\ doc'[w1.role][FieldOf(w1)] = ValueOf(w1)
                   /\ doc'[w2.role][FieldOf(w2)] = ValueOf(w2)
                   /\ Without(doc'[w1.role], FieldOf(w1))
                         = Without(base[w1.role], FieldOf(w1))
                   /\ Without(doc'[w2.role], FieldOf(w2))
                         = Without(base[w2.role], FieldOf(w2))
                   /\ [doc' EXCEPT !.host = base.host, !.guest = base.guest,
                                   !.updatedAt = base.updatedAt] = base
                   /\ SameButUpdatedAt(doc',
                          ApplyWrite(ApplyWrite(base, w2), w1))
      ]_vars

\* the guest's secret, called before the host called setReady(true), was
\* committed after the host's write: the record holds both
C32_Witness ==
    /\ ret.op = "commit"
    /\ ret.w.op = "setPlayerSecret"
    /\ ret.w.role = "guest"
    /\ ret.before # NoDoc
    /\ ret.before.guest # Null
    /\ ret.w.now < ret.before.updatedAt
    /\ ret.before.host.isReady
    /\ ret.before.host.lastActiveAt < ret.before.updatedAt
    /\ doc # NoDoc
    /\ doc.host.isReady
    /\ HasSecret(doc.guest)
    /\ doc.guest.secret = ret.w.str

BeatIssued(u) ==
    \E w \in BagToSet(pending') :
        /\ w.op = "updatePlayerActive"
        /\ w.uid = u
        /\ CopiesIn(w, pending') > CopiesIn(w, pending)

\* C34: the step in which a client leaves the game screen, through
\* handleExit whether or not its call failed or through the listener,
\* leaves it without interval and without room state, and while the client
\* is off the game screen no step issues a heartbeat of it, fires or sets
\* its interval, or gives it a snapshot.
C34_ReleasedOnExit ==
    [][ \A u \in Clients :
          /\ (screen[u] = "game" /\ screen'[u] # "game")
                => /\ timer'[u] = << >>
                   /\ view'[u] = NoView
          /\ (screen[u] # "game" /\ screen'[u] # "game")
                => /\ ~BeatIssued(u)
                   /\ timer'[u] = << >>
                   /\ view'[u] = NoView
      ]_vars

\* the guest has left through handleExit, a heartbeat period has passed
\* since, and it has no interval
C34_Witness ==
    /\ doc # NoDoc
    /\ doc.guest = Null
    /\ "u2" \in joinOk
    /\ screen["u2"] = "list"
    /\ timer["u2"] = << >>
    /\ doc.updatedAt > doc.host.lastActiveAt
    /\ now - doc.updatedAt >= HeartbeatInterval

\* C35: a room whose status is playing has a guest, and both players have
\* a secret.
C35_PlayingHasTwoSecrets ==
    (doc # NoDoc /\ doc.status = "playing")
      => /\ doc.guest # Null
         /\ HasSecret(doc.host)
         /\ HasSecret(doc.guest)

Alternates(d) ==
    LET h == Len(d.host.guesses)
        g == Len(GuessesOf(d.guest))
    IN  /\ 0 <= h - g
        /\ h - g <= 1
        /\ (d.currentTurn = "host") <=> (h = g)

ClearedBy(d, role) ==
    /\ d[role] # Null
    /\ d[Other(role)] # Null
    /\ SomeClear(GuessesOf(d[role]), Get(d[Other(role)], "secret", << >>),
                 d.config)

\* C37: no guess is committed on a record in which a player has cleared the
\* game, and the two players never both have a guess that clears it.
C37_NoGuessAfterClear ==
    [][ /\ \A w \in BagToSet(pending) :
              (Commits(w) /\ w.op = "submitGuess" /\ doc # NoDoc)
                => ~(ClearedBy(doc, "host") \/ ClearedBy(doc, "guest"))
        /\ (doc' # NoDoc)
              => ~(ClearedBy(doc', "host") /\ ClearedBy(doc', "guest"))
      ]_vars

\* C38: once the room was created and deleted, no step makes the document
\* exist again, and a write that commits then, or finishGame, ends with the
\* rejection of updateDoc and writes nothing.
C38_NoResurrection ==
    [][ (allocated /\ doc = NoDoc)
          => /\ doc' = NoDoc
             /\ (ret'.op # "none") => (ret'.result = "NotFound")
      ]_vars

\* the write of a guess read before the room was deleted was rejected
C38_Witness ==
    /\ allocated
    /\ doc = NoDoc
    /\ ret.op = "submitGuess"
    /\ ret.result = "NotFound"

\* C39: the guest of a room is never its host.
C39_GuestIsNotHost ==
    (doc # NoDoc /\ doc.guest # Null)
      => Get(doc.guest, "uid", NoUid) # doc.host.uid

\* C40: a call of updatePlayerReady, setPlayerSecret or updatePlayerActive
\* with a uid that is neither the host's nor the guest's issues no write and
\* leaves the record as it is, updatedAt included; the write of
\* updatePlayerReady(uid, v) by a player sets that player's isReady to v and
\* updatedAt and nothing else, and committing it again changes nothing.
C40_ReadyFrame ==
    [][ /\ (/\ ret'.op \in {"updatePlayerReady", "setPlayerSecret",
                            "updatePlayerActive"}
            /\ doc # NoDoc
            /\ ret'.uid # doc.host.uid
            /\ ret'.uid # Get(doc.guest, "uid", NoUid))
             => /\ pending' = pending
                /\ doc' = doc
        /\ \A w \in BagToSet(pending) :
              (/\ Commits(w)
               /\ w.op = "updatePlayerReady"
               /\ doc # NoDoc
               /\ doc[w.role] # Null)
                => /\ doc'[w.role].isReady = w.flag
                   /\ Without(doc'[w.role], "isReady")
                         = Without(doc[w.role], "isReady")
                   /\ doc'[Other(w.role)] = doc[Other(w.role)]
                   /\ doc'.updatedAt = w.now
                   /\ [doc' EXCEPT !.host = doc.host, !.guest = doc.guest,
                                   !.updatedAt = doc.updatedAt] = doc
                   /\ ApplyWrite(doc', w) = doc'
      ]_vars

\* an outsider called updatePlayerReady on a room with two players: the call
\* returned after its read
C40_Witness ==
    /\ ret.op = "updatePlayerReady"
    /\ ret.uid = "u3"
    /\ ~ret.issued
    /\ doc # NoDoc
    /\ doc.guest # Null
    /\ now > doc.updatedAt

====
